---- MODULE Spec2Model ----
(***************************************************************************)
(* The virtual-DOM tree builder (createTree) and reconciler (diff) of      *)
(* E4/axv230014/diff.js, run against a heap of live DOM nodes.             *)
(***************************************************************************)
EXTENDS Integers, Sequences, FiniteSets, TLC

(* Largest description drawn as an input: nodes plus attributes it carries. *)
MaxSize == 3

Tags == {"div", "span"}
Texts == {"a", "b"}
AttrNames == <<"class", "id">>
AttrValues == {"x", "y"}
AttrNameSet == {AttrNames[i] : i \in 1..Len(AttrNames)}

(* A property that is not in a props object / an attribute that is not set. *)
Absent == "#absent"
(* The JavaScript value undefined, as the value of a missing .type. *)
Undefined == "#undefined"
(* The JavaScript values null and undefined in the place of a DOM node. *)
NullNode == 0

Min(a, b) == IF a < b THEN a ELSE b

(***************************************************************************)
(* Node descriptions (vNodes): a string, an object {type, props,           *)
(* children}, or null.                                                     *)
(***************************************************************************)
Text(s) == [k |-> "text", s |-> s]
Elem(t, p, c) == [k |-> "elem", type |-> t, props |-> p, children |-> c]
Null == [k |-> "null"]

NoProps == [n \in AttrNameSet |-> Absent]
AllProps == [AttrNameSet -> AttrValues \cup {Absent}]
PropKeys(p) == {n \in AttrNameSet : p[n] # Absent}
PropsOfSize(n) == {p \in AllProps : Cardinality(PropKeys(p)) = n}

RECURSIVE TreesOf(_), ForestsOf(_)
(* The well-formed descriptions of size exactly n. *)
TreesOf(n) ==
  IF n < 1 THEN {}
  ELSE (IF n = 1 THEN {Text(s) : s \in Texts} ELSE {})
       \cup UNION {{Elem(t, p, c) : t \in Tags, p \in PropsOfSize(j),
                                    c \in ForestsOf(n - 1 - j)} :
                   j \in 0..Min(n - 1, Len(AttrNames))}
(* The child lists of total size exactly n. *)
ForestsOf(n) ==
  IF n = 0 THEN {<< >>}
  ELSE UNION {{<<t>> \o f : t \in TreesOf(j), f \in ForestsOf(n - j)} : j \in 1..n}

Descs == UNION {TreesOf(n) : n \in 1..MaxSize}
(* Element descriptions that lack a tag name, at the root or in a child. *)
Malformed ==
  {Elem(Undefined, NoProps, c) : c \in {<< >>, <<Text("a")>>}}
  \cup {Elem("div", NoProps, <<Elem(Undefined, NoProps, << >>)>>)}
Inputs == Descs \cup Malformed

RECURSIVE WellFormed(_)
WellFormed(v) ==
  \/ v.k = "text"
  \/ /\ v.k = "elem"
     /\ v.type # Undefined
     /\ \A i \in 1..Len(v.children) : WellFormed(v.children[i])

(* typeof vnode === "string" *)
IsString(v) == v.k = "text"
(* vnode == null *)
IsNullish(v) == v.k = "null"
(* vnode.type: undefined on a string and on an object without the key. *)
TypeOf(v) == IF v.k = "elem" THEN v.type ELSE Undefined
(* vnode.props || {} *)
Props(v) == IF v.k = "elem" THEN v.props ELSE NoProps
(* vnode.children || [] *)
Children(v) == IF v.k = "elem" THEN v.children ELSE << >>

(***************************************************************************)
(* The rendering surface: a heap of nodes, the log of the mutations one    *)
(* call has issued, and whether the call has thrown.                       *)
(***************************************************************************)
NoAttrs == [n \in AttrNameSet |-> Absent]
Node(kind, tag, text) ==
  [kind |-> kind, tag |-> tag, text |-> text, attrs |-> NoAttrs,
   children |-> << >>, parent |-> NullNode]
Mutation(op, node, name, value, child) ==
  [op |-> op, node |-> node, name |-> name, value |-> value, child |-> child]

Raise(st) == [st EXCEPT !.fault = TRUE]
Logged(st, m) == [st EXCEPT !.log = Append(@, m)]

(* The string a DOM operation makes of its argument. *)
ToDOMString(t) == IF t = Undefined THEN "undefined" ELSE t

IndexOf(seq, x) == IF \E i \in 1..Len(seq) : seq[i] = x
                   THEN CHOOSE i \in 1..Len(seq) : seq[i] = x
                   ELSE 0
Without(seq, x) == SelectSeq(seq, LAMBDA y : y # x)
IsElement(st, n) == n # NullNode /\ st.nodes[n].kind = "element"

CreateTextNode(st, s) ==
  [st EXCEPT !.nodes = Append(@, Node("text", "#text", s)),
             !.ret = Len(st.nodes) + 1]
CreateElement(st, t) ==
  [st EXCEPT !.nodes = Append(@, Node("element", ToDOMString(t), "")),
             !.ret = Len(st.nodes) + 1]

SetAttribute(st, n, key, value) ==
  IF st.fault THEN st
  ELSE IF ~IsElement(st, n) THEN Raise(st)
  ELSE Logged([st EXCEPT !.nodes[n].attrs[key] = value],
              Mutation("SetAttribute", n, key, value, NullNode))

RemoveAttribute(st, n, key) ==
  IF st.fault THEN st
  ELSE IF ~IsElement(st, n) THEN Raise(st)
  ELSE Logged([st EXCEPT !.nodes[n].attrs[key] = Absent],
              Mutation("RemoveAttribute", n, key, "", NullNode))

(* Takes c out of the child list of the parent it has, if it has one. *)
Detached(nodes, c) ==
  LET p == nodes[c].parent
  IN IF p = NullNode THEN nodes
     ELSE [nodes EXCEPT ![p].children = Without(@, c), ![c].parent = NullNode]

AppendChild(st, p, c) ==
  IF st.fault THEN st
  ELSE IF ~IsElement(st, p) \/ c = NullNode THEN Raise(st)
  ELSE LET d == Detached(st.nodes, c)
       IN Logged([st EXCEPT !.nodes = [d EXCEPT ![p].children = Append(@, c),
                                                ![c].parent = p]],
                 Mutation("AppendChild", p, "", "", c))

RemoveChild(st, p, c) ==
  IF st.fault THEN st
  ELSE IF p = NullNode \/ c = NullNode THEN Raise(st)
  ELSE IF st.nodes[c].parent # p THEN Raise(st)
  ELSE Logged([st EXCEPT !.nodes = Detached(st.nodes, c)],
              Mutation("RemoveChild", p, "", "", c))

ReplaceChild(st, p, newChild, oldChild) ==
  IF st.fault THEN st
  ELSE IF p = NullNode \/ newChild = NullNode \/ oldChild = NullNode THEN Raise(st)
  ELSE IF st.nodes[oldChild].parent # p THEN Raise(st)
  ELSE LET d == Detached(st.nodes, newChild)
           i == IndexOf(d[p].children, oldChild)
       IN Logged([st EXCEPT !.nodes = [d EXCEPT ![p].children[i] = newChild,
                                                ![newChild].parent = p,
                                                ![oldChild].parent = NullNode]],
                 Mutation("ReplaceChild", p, "", "", newChild))

(* node.textContent = s: on a text node its data; on an element all of    *)
(* its children give way to one text node (none for the empty string).    *)
SetTextContent(st, n, s) ==
  IF st.fault THEN st
  ELSE IF n = NullNode THEN Raise(st)
  ELSE IF st.nodes[n].kind = "text"
    THEN Logged([st EXCEPT !.nodes[n].text = s],
                Mutation("SetTextContent", n, "", s, NullNode))
  ELSE LET kids == st.nodes[n].children
           cut == [i \in 1..Len(st.nodes) |->
                     IF IndexOf(kids, i) # 0
                     THEN [st.nodes[i] EXCEPT !.parent = NullNode]
                     ELSE st.nodes[i]]
           t == Len(st.nodes) + 1
           filled == IF s = "" THEN [cut EXCEPT ![n].children = << >>]
                     ELSE Append([cut EXCEPT ![n].children = <<t>>],
                                 [Node("text", "#text", s) EXCEPT !.parent = n])
       IN Logged([st EXCEPT !.nodes = filled],
                 Mutation("SetTextContent", n, "", s, NullNode))

(* Read accessors. *)
ParentNode(st, n) == st.nodes[n].parent
ChildNodes(st, n) == st.nodes[n].children
ChildAt(st, n, i) ==
  IF i <= Len(ChildNodes(st, n)) THEN ChildNodes(st, n)[i] ELSE NullNode
(* A bug: the first child taken for the last. *)
LastChild_First(st, n) ==
  IF ChildNodes(st, n) = << >> THEN NullNode ELSE ChildNodes(st, n)[1]
LastChild(st, n) ==
  IF ChildNodes(st, n) = << >> THEN NullNode
  ELSE ChildNodes(st, n)[Len(ChildNodes(st, n))]

(***************************************************************************)
(* createTree                                                              *)
(***************************************************************************)
RECURSIVE createTree(_, _), setProps(_, _, _, _), appendChildren(_, _, _, _)

(* parent.appendChild(createTree(child)), the tree already built. *)
appendBuilt(built, parent) == AppendChild(built, parent, built.ret)

(* for (const [key, value] of Object.entries(props)) el.setAttribute(...) *)
setProps(st, el, props, i) ==
  IF i > Len(AttrNames) THEN st
  ELSE LET key == AttrNames[i]
       IN setProps(IF props[key] # Absent
                   THEN SetAttribute(st, el, key, props[key]) ELSE st,
                   el, props, i + 1)

(* children.forEach(child => el.appendChild(createTree(child))) *)
appendChildren(st, el, children, i) ==
  IF i > Len(children) \/ st.fault THEN st
  ELSE appendChildren(appendBuilt(createTree(st, children[i]), el),
                      el, children, i + 1)

(* The element made, its attributes set and its children appended. *)
fillElement(made, vnode) ==
  [appendChildren(setProps(made, made.ret, Props(vnode), 1),
                  made.ret, Children(vnode), 1)
   EXCEPT !.ret = made.ret]

createTree(st, vnode) ==
  IF st.fault THEN st
  ELSE IF IsString(vnode) THEN CreateTextNode(st, vnode.s)
  ELSE IF IsNullish(vnode) THEN Raise(st)
  ELSE fillElement(CreateElement(st, TypeOf(vnode)), vnode)

(***************************************************************************)
(* diff                                                                    *)
(***************************************************************************)
RECURSIVE diff(_, _, _, _), diffChildren(_, _, _, _, _),
          removeOld(_, _, _, _, _), setNew(_, _, _, _, _),
          appendNew(_, _, _, _), removeExtra(_, _, _)

(* typeof oldVNode === "string" && typeof newVNode === "string" *)
BothText(oldVNode, newVNode) == IsString(oldVNode) /\ IsString(newVNode)

(* A bug: the tags compared only when both sides are objects. *)
TypeChanged_ElementsOnly(oldVNode, newVNode) ==
  /\ oldVNode.k = "elem"
  /\ newVNode.k = "elem"
  /\ TypeOf(oldVNode) # TypeOf(newVNode)

(* oldVNode.type !== newVNode.type *)
TypeChanged(oldVNode, newVNode) == TypeOf(oldVNode) # TypeOf(newVNode)

(* A bug: the key looked up in the old props, where it always is. *)
NeedsRemove_TestsOld(oldVNode, newVNode, key) ==
  Props(oldVNode)[key] # Absent /\ Props(oldVNode)[key] = Absent

(* A bug: every old attribute removed, kept by new or not. *)
NeedsRemove_AllOld(oldVNode, newVNode, key) ==
  Props(oldVNode)[key] # Absent

(* The props objects are plain maps over ordinary attribute names: none of *)
(* the names is a member of Object.prototype, which `in` would also find   *)
(* in a props object that does not list it.                                *)
(* !(key in (newVNode.props || {})) *)
NeedsRemove(oldVNode, newVNode, key) ==
  Props(oldVNode)[key] # Absent /\ Props(newVNode)[key] = Absent

(* A bug: an attribute written only when old lacks it. *)
NeedsSet_OnlyAbsent(oldVNode, newVNode, key) ==
  Props(newVNode)[key] # Absent /\ Props(oldVNode)[key] = Absent

(* A bug: every new attribute written, changed or not. *)
NeedsSet_Always(oldVNode, newVNode, key) ==
  Props(newVNode)[key] # Absent

(* !(key in (oldVNode.props || {})) || oldVNode.props[key] !== newVNode.props[key] *)
NeedsSet(oldVNode, newVNode, key) ==
  /\ Props(newVNode)[key] # Absent
  /\ \/ Props(oldVNode)[key] = Absent
     \/ Props(oldVNode)[key] # Props(newVNode)[key]

MinLength(oldVNode, newVNode) ==
  Min(Len(Children(oldVNode)), Len(Children(newVNode)))

(* A bug: domNode taken for the node, its parent for the place to append. *)
insertNew_UnderParent(st, newVNode, domNode) ==
  IF domNode = NullNode THEN Raise(createTree(st, newVNode))
  ELSE appendBuilt(createTree(st, newVNode), ParentNode(st, domNode))

(* Case 2: build the new subtree and append it to domNode. *)
insertNew(st, newVNode, domNode) ==
  appendBuilt(createTree(st, newVNode), domNode)

(* Case 3: remove domNode from its parent. *)
removeNode(st, domNode) ==
  IF domNode = NullNode THEN Raise(st)
  ELSE RemoveChild(st, ParentNode(st, domNode), domNode)

(* Case 4: build the new subtree and put it in the place of domNode. *)
replaceBuilt(built, domNode) ==
  IF built.fault THEN built
  ELSE IF domNode = NullNode THEN Raise(built)
  ELSE ReplaceChild(built, ParentNode(built, domNode), built.ret, domNode)

replaceNode(st, newVNode, domNode) ==
  replaceBuilt(createTree(st, newVNode), domNode)

(* for (const key in oldVNode.props) ... domNode.removeAttribute(key) *)
removeOld(st, oldVNode, newVNode, domNode, i) ==
  IF i > Len(AttrNames) THEN st
  ELSE removeOld(IF NeedsRemove(oldVNode, newVNode, AttrNames[i])
                 THEN RemoveAttribute(st, domNode, AttrNames[i]) ELSE st,
                 oldVNode, newVNode, domNode, i + 1)

(* for (const key in newVNode.props) ... domNode.setAttribute(key, value) *)
setNew(st, oldVNode, newVNode, domNode, i) ==
  IF i > Len(AttrNames) THEN st
  ELSE setNew(IF NeedsSet(oldVNode, newVNode, AttrNames[i])
              THEN SetAttribute(st, domNode, AttrNames[i],
                                Props(newVNode)[AttrNames[i]])
              ELSE st,
              oldVNode, newVNode, domNode, i + 1)

(* A bug: the two loops in the other order. *)
updateAttributes_SetsFirst(st, oldVNode, newVNode, domNode) ==
  removeOld(setNew(st, oldVNode, newVNode, domNode, 1),
            oldVNode, newVNode, domNode, 1)

(* Case 5: removals first, then the sets. *)
updateAttributes(st, oldVNode, newVNode, domNode) ==
  setNew(removeOld(st, oldVNode, newVNode, domNode, 1),
         oldVNode, newVNode, domNode, 1)

(* for (let i = 0; i < minLength; i++) diff(old[i], new[i], childNodes[i]) *)
diffChildren(st, oldVNode, newVNode, domNode, i) ==
  IF i > MinLength(oldVNode, newVNode) \/ st.fault THEN st
  ELSE IF domNode = NullNode THEN Raise(st)
  ELSE diffChildren(diff(st, Children(oldVNode)[i], Children(newVNode)[i],
                         ChildAt(st, domNode, i)),
                    oldVNode, newVNode, domNode, i + 1)

(* for (let i = oldLen; i < newLen; i++) domNode.appendChild(createTree(..)) *)
appendNew(st, newVNode, domNode, i) ==
  IF i > Len(Children(newVNode)) \/ st.fault THEN st
  ELSE appendNew(appendBuilt(createTree(st, Children(newVNode)[i]), domNode),
                 newVNode, domNode, i + 1)

(* A bug: `if` for `while`, one child removed however many are extra. *)
removeExtra_Once(st, domNode, newLen) ==
  IF st.fault THEN st
  ELSE IF domNode = NullNode THEN Raise(st)
  ELSE IF Len(ChildNodes(st, domNode)) > newLen
    THEN RemoveChild(st, domNode, LastChild(st, domNode))
  ELSE st

(* while (childNodes.length > newLen) domNode.removeChild(domNode.lastChild) *)
removeExtra(st, domNode, newLen) ==
  IF st.fault THEN st
  ELSE IF domNode = NullNode THEN Raise(st)
  ELSE IF Len(ChildNodes(st, domNode)) > newLen
    THEN removeExtra(RemoveChild(st, domNode, LastChild(st, domNode)),
                     domNode, newLen)
  ELSE st

(* Lines 89-118: the children in common, then the tail. *)
diffChildList(st, oldVNode, newVNode, domNode) ==
  LET oldLen == Len(Children(oldVNode))
      newLen == Len(Children(newVNode))
      common == diffChildren(st, oldVNode, newVNode, domNode, 1)
      grown == IF newLen > oldLen
               THEN appendNew(common, newVNode, domNode, oldLen + 1)
               ELSE common
  IN IF oldLen > newLen THEN removeExtra(grown, domNode, newLen) ELSE grown

diff(st, oldVNode, newVNode, domNode) ==
  IF st.fault THEN st
  ELSE IF BothText(oldVNode, newVNode)
    THEN IF oldVNode.s # newVNode.s
         THEN SetTextContent(st, domNode, newVNode.s)
         ELSE diffChildList(st, oldVNode, newVNode, domNode)
  ELSE IF IsNullish(oldVNode) THEN insertNew(st, newVNode, domNode)
  ELSE IF IsNullish(newVNode) THEN removeNode(st, domNode)
  ELSE IF TypeChanged(oldVNode, newVNode) THEN replaceNode(st, newVNode, domNode)
  ELSE diffChildList(updateAttributes(st, oldVNode, newVNode, domNode),
                     oldVNode, newVNode, domNode)

(***************************************************************************)
(* The state machine: a document with a container, and the calls a caller  *)
(* makes on it.                                                            *)
(***************************************************************************)
VARIABLES nodes, log, fault, phase, oldV, newV, live, prev

vars == <<nodes, log, fault, phase, oldV, newV, live, prev>>

(* The container the tree is rendered under; it has two children already. *)
Container == 1
Document ==
  << [Node("element", "body", "") EXCEPT !.children = <<2, 3>>],
     [Node("text", "#text", "s") EXCEPT !.parent = Container],
     [Node("text", "#text", "t") EXCEPT !.parent = Container] >>

Call(heap) == [nodes |-> heap, log |-> << >>, fault |-> FALSE, ret |-> NullNode]

Init ==
  /\ nodes = Document
  /\ log = << >>
  /\ fault = FALSE
  /\ phase = "empty"
  /\ oldV = Null
  /\ newV = Null
  /\ live = NullNode
  /\ prev = Document

(* createTree(d), the result kept detached. *)
Build(d) ==
  /\ phase = "empty"
  /\ \E st \in {createTree(Call(nodes), d)} :
        /\ nodes' = st.nodes
        /\ log' = st.log
        /\ fault' = st.fault
        /\ live' = st.ret
  /\ phase' = "built"
  /\ newV' = d
  /\ prev' = nodes
  /\ UNCHANGED oldV

(* diff(null, a, container): the first render. *)
Mount(a) ==
  /\ phase = "empty"
  /\ \E st \in {diff(Call(nodes), Null, a, Container)} :
        /\ nodes' = st.nodes
        /\ log' = st.log
        /\ fault' = st.fault
        /\ live' = ChildAt(st, Container, Len(ChildNodes(st, Container)))
  /\ phase' = "mounted"
  /\ oldV' = a
  /\ prev' = nodes
  /\ UNCHANGED newV

(* diff(null, a, null): a first render without a parent to render under. *)
MountNoParent(a) ==
  /\ phase = "empty"
  /\ \E st \in {diff(Call(nodes), Null, a, NullNode)} :
        /\ nodes' = st.nodes
        /\ log' = st.log
        /\ fault' = st.fault
  /\ phase' = "orphan"
  /\ newV' = a
  /\ prev' = nodes
  /\ UNCHANGED <<oldV, live>>

(* diff(a, b, live) *)
Reconcile(b) ==
  /\ phase = "mounted"
  /\ ~fault
  /\ \E st \in {diff(Call(nodes), oldV, b, live)} :
        /\ nodes' = st.nodes
        /\ log' = st.log
        /\ fault' = st.fault
  /\ phase' = "reconciled"
  /\ newV' = b
  /\ prev' = nodes
  /\ UNCHANGED <<oldV, live>>

(* diff(b, a, live) with the handle the caller still holds. *)
ReconcileBack ==
  /\ phase = "reconciled"
  /\ ~fault
  /\ \E st \in {diff(Call(nodes), newV, oldV, live)} :
        /\ nodes' = st.nodes
        /\ log' = st.log
        /\ fault' = st.fault
  /\ phase' = "restored"
  /\ prev' = nodes
  /\ UNCHANGED <<oldV, newV, live>>

(* diff(a, null, live) *)
Unmount ==
  /\ phase = "mounted"
  /\ ~fault
  /\ \E st \in {diff(Call(nodes), oldV, Null, live)} :
        /\ nodes' = st.nodes
        /\ log' = st.log
        /\ fault' = st.fault
  /\ phase' = "removed"
  /\ prev' = nodes
  /\ UNCHANGED <<oldV, newV, live>>

Next ==
  \/ phase = "empty" /\ \E d \in Inputs : Build(d)
  \/ phase = "empty" /\ \E a \in Inputs : Mount(a)
  \/ phase = "empty" /\ \E a \in Inputs : MountNoParent(a)
  \/ phase = "mounted" /\ \E b \in Inputs : Reconcile(b)
  \/ ReconcileBack
  \/ Unmount

Spec == Init /\ [][Next]_vars

TypeOK ==
  /\ phase \in {"empty", "built", "mounted", "orphan", "reconciled", "restored", "removed"}
  /\ fault \in BOOLEAN
  /\ live \in 0..Len(nodes)

(***************************************************************************)
(* What the properties are stated in.                                      *)
(***************************************************************************)
RECURSIVE Shape(_, _), Skeleton(_, _), Subtree(_, _), Linked(_, _)

(* The tree under n: tags, attribute maps, texts, children in order. *)
Shape(heap, n) ==
  IF heap[n].kind = "text" THEN [kind |-> "text", text |-> heap[n].text]
  ELSE [kind |-> "element", tag |-> heap[n].tag, attrs |-> heap[n].attrs,
        children |-> [i \in 1..Len(heap[n].children) |->
                        Shape(heap, heap[n].children[i])]]

(* The tree under n: attribute maps and child counts only. *)
Skeleton(heap, n) ==
  [attrs |-> heap[n].attrs,
   children |-> [i \in 1..Len(heap[n].children) |->
                   Skeleton(heap, heap[n].children[i])]]

(* The nodes of the tree under n. *)
Subtree(heap, n) ==
  {n} \cup UNION {Subtree(heap, heap[n].children[i]) :
                  i \in 1..Len(heap[n].children)}

(* Every node under n has the node above it as its parent. *)
Linked(heap, n) ==
  \A i \in 1..Len(heap[n].children) :
    /\ heap[heap[n].children[i]].parent = n
    /\ Linked(heap, heap[n].children[i])

Built(v) == createTree(Call(<< >>), v)
ShapeOf(built) == Shape(built.nodes, built.ret)
SkeletonOf(built) == Skeleton(built.nodes, built.ret)
BuiltShape(v) == ShapeOf(Built(v))
BuiltSkeleton(v) == SkeletonOf(Built(v))

(* Nodes that exist since before the last call, and nodes it created. *)
Existing == 1..Len(prev)
Fresh == (Len(prev) + 1)..Len(nodes)

(* Where the live node was among the children of the container. *)
Pos == IndexOf(prev[Container].children, live)

IsElem(v) == v.k = "elem"
SameTag(a, b) == IsElem(a) /\ IsElem(b) /\ a.type = b.type
Mismatch(a, b) ==
  \/ IsString(a) /\ IsElem(b)
  \/ IsElem(a) /\ IsString(b)
  \/ IsElem(a) /\ IsElem(b) /\ a.type # b.type

Reconciled == phase = "reconciled" /\ WellFormed(oldV) /\ WellFormed(newV)

LogOn(n, op) == {i \in 1..Len(log) : log[i].node = n /\ log[i].op = op}
Ops == {log[i].op : i \in 1..Len(log)}
AttrOps == {"SetAttribute", "RemoveAttribute"}

(* The other children of the container are the nodes they were. *)
SiblingsUntouched ==
  /\ Len(nodes[Container].children) = Len(prev[Container].children)
  /\ nodes[Container].attrs = prev[Container].attrs
  /\ \A i \in 1..Len(prev[Container].children) :
       i # Pos =>
         /\ nodes[Container].children[i] = prev[Container].children[i]
         /\ Shape(nodes, nodes[Container].children[i])
              = Shape(prev, prev[Container].children[i])

(* Mount leaves the live node a copy of Build(a). *)
MountedIsBuilt ==
  (phase = "mounted" /\ WellFormed(oldV)) =>
    /\ ~fault
    /\ live # NullNode
    /\ Shape(nodes, live) = BuiltShape(oldV)

ChildrenMatch(n, v) ==
  /\ Len(nodes[n].children) = Len(Children(v))
  /\ \A i \in 1..Len(Children(v)) :
       Shape(nodes, nodes[n].children[i]) = BuiltShape(Children(v)[i])

Restored == phase = "restored" /\ WellFormed(oldV) /\ WellFormed(newV)

C4_Idempotent ==
  (Reconciled /\ oldV = newV) =>
    /\ ~fault
    /\ log = << >>
    /\ nodes = prev

C4_Witness ==
  /\ Reconciled
  /\ oldV = newV
  /\ IsElem(oldV)
  /\ PropKeys(Props(oldV)) # {}
  /\ Len(Children(oldV)) > 0
  /\ log = << >>

C5_WitnessUntouched ==
  /\ Reconciled
  /\ SameTag(oldV, newV)
  /\ \E n \in AttrNameSet : Props(oldV)[n] # Absent /\ Props(oldV)[n] = Props(newV)[n]
  /\ LogOn(live, "SetAttribute") # {}

(* No node that existed before the call differs from what it was. *)
ExistingUntouched == \A n \in Existing : nodes[n] = prev[n]

(* C6 as claimed: a call with a null live node where a parent is expected, *)
(* or with an element description that lacks its tag name, ends in a fault *)
(* with no existing live node mutated; it never completes silently.        *)
C6_ContractViolationFaults ==
  /\ phase = "orphan" => (fault /\ ExistingUntouched)
  /\ (phase \in {"built", "mounted", "reconciled"}
      /\ ~(WellFormed(IF phase = "mounted" THEN oldV ELSE newV)))
       => (fault /\ ExistingUntouched)

(* The null-parent half of C6 alone. *)
NullParentFaults == phase = "orphan" => (fault /\ ExistingUntouched)

(* C7: on a text/element, element/text or different-tag pair Reconcile     *)
(* builds Build(new) afresh and puts it where liveNode was in its parent;  *)
(* liveNode itself gets no attribute, text or child mutation and no node   *)
(* of the old subtree appears in the new one.                              *)
C7_MismatchReplaces ==
  (Reconciled /\ Mismatch(oldV, newV)) =>
    /\ ~fault
    /\ Pos # 0
    /\ SiblingsUntouched
    /\ Shape(nodes, nodes[Container].children[Pos]) = BuiltShape(newV)
    /\ Subtree(nodes, nodes[Container].children[Pos]) \subseteq Fresh
    /\ nodes[nodes[Container].children[Pos]].parent = Container
    /\ nodes[live] = [prev[live] EXCEPT !.parent = NullNode]
    /\ \A n \in Subtree(prev, live) \ {live} : nodes[n] = prev[n]
    /\ \A i \in 1..Len(log) :
         log[i].node \in Existing =>
           /\ log[i].node = Container
           /\ log[i].op = "ReplaceChild"
           /\ log[i].child = nodes[Container].children[Pos]

C7_Witness ==
  /\ Reconciled
  /\ IsString(oldV)
  /\ IsElem(newV)
  /\ Len(Children(newV)) > 0
  /\ ~fault
  /\ nodes[live].parent = NullNode

(* C8: Reconcile(null, new, parent) appends one child equal to Build(new)  *)
(* as the last child of parent; the children parent had keep identity,     *)
(* position, attributes and subtree.                                       *)
C8_InsertAppendsLast ==
  (phase = "mounted" /\ WellFormed(oldV)) =>
    /\ ~fault
    /\ Len(nodes[Container].children) = Len(prev[Container].children) + 1
    /\ SubSeq(nodes[Container].children, 1, Len(prev[Container].children))
         = prev[Container].children
    /\ nodes[Container].children[Len(nodes[Container].children)] \in Fresh
    /\ Shape(nodes, nodes[Container].children[Len(nodes[Container].children)])
         = BuiltShape(oldV)
    /\ nodes[Container].attrs = prev[Container].attrs
    /\ \A n \in Existing \ {Container} : nodes[n] = prev[n]
    /\ Linked(nodes, Container)

C8_Witness ==
  /\ phase = "mounted"
  /\ WellFormed(oldV)
  /\ IsElem(oldV)
  /\ Len(Children(oldV)) > 0
  /\ Len(nodes[Container].children) = 3
  /\ nodes[Container].children[3] = live

(* Proper descendants of n, before or after the call. *)
Below(n) ==
  (Subtree(nodes, n) \cup (IF n \in Existing THEN Subtree(prev, n) ELSE {})) \ {n}

(* Both text, or both elements of one tag. *)
Compatible(a, b) == BothText(a, b) \/ SameTag(a, b)
AllText(children) == \A i \in 1..Len(children) : IsString(children[i])

(* The removals at log positions R took oldLen - newLen children, each    *)
(* the last child at its time.                                             *)
RemovedFromEnd(R, oldLen, newLen) ==
  /\ Cardinality(R) = oldLen - newLen
  /\ \A j \in R :
       log[j].child
         = prev[live].children[oldLen + 1 - Cardinality({h \in R : h <= j})]

(* C9: child diffing is positional and moves no node: the root keeps its   *)
(* handle, the child at each common index keeps its handle when old and    *)
(* new child are compatible there, text children that only change get      *)
(* text writes and nothing else, and a longer old list loses exactly the   *)
(* difference, from the end.                                               *)
C9_PositionalNoMoves ==
  (Reconciled /\ SameTag(oldV, newV)) =>
    /\ nodes[Container].children = prev[Container].children
    /\ \A i \in 1..MinLength(oldV, newV) :
         Compatible(Children(oldV)[i], Children(newV)[i])
           => nodes[live].children[i] = prev[live].children[i]
    /\ (Len(Children(oldV)) = Len(Children(newV))
        /\ AllText(Children(oldV)) /\ AllText(Children(newV)))
         => /\ Ops \subseteq AttrOps \cup {"SetTextContent"}
            /\ \A i \in 1..Len(log) :
                 log[i].op = "SetTextContent" => log[i].node \in Below(live)
    /\ Len(Children(oldV)) > Len(Children(newV)) =>
         RemovedFromEnd(LogOn(live, "RemoveChild"),
                        Len(Children(oldV)), Len(Children(newV)))
    /\ Len(Children(oldV)) <= Len(Children(newV)) =>
         LogOn(live, "RemoveChild") = {}

C9_Witness ==
  /\ Reconciled
  /\ SameTag(oldV, newV)
  /\ Children(oldV) = <<Text("a"), Text("b")>>
  /\ Children(newV) = <<Text("b"), Text("a")>>
  /\ Cardinality({i \in 1..Len(log) : log[i].op = "SetTextContent"}) = 2
  /\ nodes[live].children = prev[live].children

(* The member of a set of one index; -2 of any other set. *)
TheOne(owners) ==
  IF Cardinality(owners) = 1 THEN CHOOSE i \in owners : TRUE ELSE -2

(* The elements under the live node that the call updated in place or     *)
(* left alone: there before, and still there.                              *)
InPlace ==
  {n \in Subtree(prev, live) \cap Subtree(nodes, live) :
     prev[n].kind = "element"}

(* The stage of the same-tag update of n that a mutation belongs to: the   *)
(* removals, the sets, child i (as i), the tail.                           *)
Stage(n, e) ==
  IF e.node = n
  THEN CASE e.op = "RemoveAttribute" -> -1
         [] e.op = "SetAttribute" -> 0
         [] e.op = "RemoveChild" -> Len(prev[n].children) + 1
         [] OTHER -> IndexOf(nodes[n].children, e.child)
  ELSE TheOne({i \in 1..Len(nodes[n].children) :
                 e.node \in Subtree(nodes, nodes[n].children[i])}
              \cup {i \in 1..Len(prev[n].children) :
                      e.node \in Subtree(prev, prev[n].children[i])})

(* The log positions of the mutations of n and of the nodes below it. *)
Scope(n) == {i \in 1..Len(log) : log[i].node \in Below(n) \cup {n}}

(* C10: in the same-tag case the mutations come as: the attribute removals *)
(* on liveNode, its attribute sets, everything of child 0, then of child   *)
(* 1, ..., then the tail, and so again inside each child updated in place; *)
(* and no node gets an attribute mutation after a mutation of one of its   *)
(* descendants.                                                            *)
C10_MutationOrder ==
  (Reconciled /\ SameTag(oldV, newV)) =>
    /\ Scope(live) = 1..Len(log)
    /\ \A n \in InPlace :
         /\ \A i \in Scope(n) : Stage(n, log[i]) >= -1
         /\ \A i, j \in Scope(n) :
              i < j => Stage(n, log[i]) <= Stage(n, log[j])
    /\ \A i, j \in 1..Len(log) :
         (i < j /\ log[j].op \in AttrOps) => log[i].node \notin Below(log[j].node)

C10_Witness ==
  /\ Reconciled
  /\ SameTag(oldV, newV)
  /\ Len(log) = 3
  /\ log[1].op = "RemoveAttribute"
  /\ log[2].op = "SetAttribute"
  /\ log[1].node = live /\ log[2].node = live
  /\ log[3].node \in Below(live)
====
